---- MODULE Spec2Model ----
(***************************************************************************)
(* Model of pdfextract.py: the page-range parser parse_page_ranges and the *)
(* orchestrator extract_pages.  Strings are sequences of one-character     *)
(* strings; a document is a function from 0-based page index to content.   *)
(***************************************************************************)
EXTENDS Integers, Sequences, FiniteSets, TLC

MaxLen == 5
MaxPages == 3

\* characters a selection string is drawn from
Chars == {"0", "1", "2", "3", ",", "-", " ", "a"}

Digits == <<"0", "1", "2", "3", "4", "5", "6", "7", "8", "9">>
DigitChars == {Digits[i] : i \in 1..10}
Whitespace == {" "}
Signs == {"+", "-"}

Strings == UNION {[1..n -> Chars] : n \in 0..MaxLen}

----------------------------------------------------------------------------
(* str.split(sep): always at least one field *)
RECURSIVE split(_, _)
split(s, sep) ==
    IF s = <<>> THEN << <<>> >>
    ELSE LET r == split(Tail(s), sep) IN
         IF Head(s) = sep THEN << <<>> >> \o r
         ELSE << <<Head(s)>> \o Head(r) >> \o Tail(r)

RECURSIVE lstrip(_)
lstrip(s) ==
    IF s # <<>> /\ Head(s) \in Whitespace THEN lstrip(Tail(s)) ELSE s

RECURSIVE rstrip(_)
rstrip(s) ==
    IF s # <<>> /\ s[Len(s)] \in Whitespace
    THEN rstrip(SubSeq(s, 1, Len(s) - 1)) ELSE s

(* str.strip() *)
strip(s) == rstrip(lstrip(s))

DigitVal(c) == (CHOOSE i \in 1..10 : Digits[i] = c) - 1

RECURSIVE DecVal(_)
DecVal(u) ==
    IF u = <<>> THEN 0
    ELSE DecVal(SubSeq(u, 1, Len(u) - 1)) * 10 + DigitVal(u[Len(u)])

(* the digits of an int() literal once whitespace and sign are removed *)
IntBody(s) ==
    LET t == strip(s) IN
    IF t # <<>> /\ Head(t) \in Signs THEN Tail(t) ELSE t

(* int(s) raises ValueError; the digit-group underscore and non-ASCII
   digits int() also accepts are outside Chars *)
int_raises(s) ==
    LET u == IntBody(s) IN
    u = <<>> \/ \E i \in 1..Len(u) : u[i] \notin DigitChars

(* int(s) when it does not raise *)
int(s) ==
    LET t == strip(s) IN
    IF t # <<>> /\ Head(t) = "-" THEN 0 - DecVal(IntBody(s))
    ELSE DecVal(IntBody(s))

range_descending(a, b) == [i \in 1..(IF b > a THEN b - a ELSE 0) |-> b - i]

(* range(a, b) as a list *)
range(a, b) == [i \in 1..(IF b > a THEN b - a ELSE 0) |-> a + i - 1]

(* line 39: '-' in part *)
HasHyphen_signed(part) == \E i \in 2..Len(part) : part[i] = "-"
HasHyphen(part) == \E i \in 1..Len(part) : part[i] = "-"

(* line 44: start > end *)
StartAfterEnd_strict(start, end) == start >= end
StartAfterEnd(start, end) == start > end

Raise(kind, part) == [err |-> kind, part |-> part, pages |-> <<>>]

(* lines 35-51: the token loop; stops at the first token that raises *)
RECURSIVE ExpandParts(_, _)
ExpandParts(parts, pages) ==
    IF parts = <<>> THEN [err |-> "none", part |-> <<>>, pages |-> pages]
    ELSE LET part == strip(Head(parts)) IN
         IF part = <<>> THEN ExpandParts(Tail(parts), pages)
         ELSE IF HasHyphen(part)
         THEN LET f == split(part, "-") IN
              IF Len(f) # 2 \/ int_raises(f[1]) \/ int_raises(f[2])
              THEN Raise("RangoInvalido", part)
              ELSE IF StartAfterEnd(int(f[1]), int(f[2]))
              THEN Raise("RangoInvalidoInicioMayorFin", part)
              ELSE ExpandParts(Tail(parts),
                               pages \o range(int(f[1]), int(f[2]) + 1))
         ELSE IF int_raises(part)
              THEN Raise("NumeroDePaginaInvalido", part)
              ELSE ExpandParts(Tail(parts), pages \o <<int(part)>>)

FilterStep_nodedup(st, p, total_pages) ==
    IF 1 <= p /\ p <= total_pages
    THEN [seen |-> st.seen \cup {p}, valid_pages |-> Append(st.valid_pages, p)]
    ELSE st

(* lines 56-58: the body of the filter loop for one value p *)
FilterStep(st, p, total_pages) ==
    IF 1 <= p /\ p <= total_pages /\ p \notin st.seen
    THEN [seen |-> st.seen \cup {p}, valid_pages |-> Append(st.valid_pages, p)]
    ELSE st

(* lines 55-58: the loop over pages[lo..hi], run in order from state st
   (the iterations are composed by halves to keep the evaluation shallow) *)
RECURSIVE FilterLoop(_, _, _, _, _)
FilterLoop(pages, lo, hi, total_pages, st) ==
    IF lo > hi THEN st
    ELSE IF lo = hi THEN FilterStep(st, pages[lo], total_pages)
    ELSE LET mid == (lo + hi) \div 2
             left == FilterLoop(pages, lo, mid, total_pages, st)
         IN  \* seen and valid_pages grow together (lines 57-58)
             IF Cardinality(left.seen) = Len(left.valid_pages)
             THEN FilterLoop(pages, mid + 1, hi, total_pages, left)
             ELSE left

(* lines 53-59: range filter and first-occurrence deduplication *)
FilterPages(pages, total_pages) ==
    FilterLoop(pages, 1, Len(pages), total_pages,
               [seen |-> {}, valid_pages |-> <<>>]).valid_pages

parse_page_ranges_lenient(page_ranges, total_pages) ==
    LET w == ExpandParts(split(page_ranges, ","), <<>>) IN
    [err |-> "none", part |-> <<>>,
     pages |-> FilterPages(w.pages, total_pages)]

parse_page_ranges(page_ranges, total_pages) ==
    LET w == ExpandParts(split(page_ranges, ","), <<>>) IN
    IF w.err # "none" THEN w
    ELSE [err |-> "none", part |-> <<>>,
          pages |-> FilterPages(w.pages, total_pages)]

insert_pdf_exclusive(dst, src, from_page, to_page) ==
    dst \o [i \in 1..(to_page - from_page) |-> src[from_page + i - 1]]

(* Document.insert_pdf(src, from_page, to_page): append src[from..to] *)
insert_pdf(dst, src, from_page, to_page) ==
    dst \o [i \in 1..(to_page - from_page + 1) |-> src[from_page + i - 1]]

----------------------------------------------------------------------------
VARIABLES
    page_ranges,     \* the selection string argument
    input_pdf,       \* pages of the file at the input path (0-based)
    pc,              \* position in extract_pages
    doc,             \* source handle: "none", "open", "closed"
    docCloses,       \* number of doc.close() calls
    new_doc,         \* output handle: "none", "open", "closed"
    newDocCloses,    \* number of new_doc.close() calls
    newDocPages,     \* pages of the output document
    total_pages,
    parsed,          \* outcome of the parse_page_ranges call
    parseArgs,       \* total_pages argument of every parser call
    copied,          \* number of loop iterations completed
    output_pdf,      \* file at the output path
    exitStatus,      \* -1 while running
    message,         \* reason given to sys.exit
    printed          \* success message printed

vars == <<page_ranges, input_pdf, pc, doc, docCloses, new_doc, newDocCloses,
          newDocPages, total_pages, parsed, parseArgs, copied, output_pdf,
          exitStatus, message, printed>>

SourceDocument(n) == [k \in 0..(n - 1) |-> <<"page", k>>]

Init ==
    /\ page_ranges \in Strings
    /\ \E n \in 0..MaxPages : input_pdf = SourceDocument(n)
    /\ pc = "open"
    /\ doc = "none" /\ docCloses = 0
    /\ new_doc = "none" /\ newDocCloses = 0
    /\ newDocPages = <<>>
    /\ total_pages = 0
    /\ parsed = [err |-> "notcalled", part |-> <<>>, pages |-> <<>>]
    /\ parseArgs = <<>>
    /\ copied = 0
    /\ output_pdf = [state |-> "untouched", pages |-> <<>>]
    /\ exitStatus = -1
    /\ message = "none"
    /\ printed = FALSE

(* sys.exit(msg): message on stderr, status 1 *)
SysExit(msg) ==
    /\ pc' = "exit"
    /\ exitStatus' = 1
    /\ message' = msg

(* lines 71-74 *)
OpenSource ==
    /\ pc = "open"
    /\ \E ok \in BOOLEAN :
        IF ok THEN /\ doc' = "open"
                   /\ pc' = "count"
                   /\ UNCHANGED <<exitStatus, message>>
        ELSE /\ SysExit("SourceOpenError")
             /\ UNCHANGED doc
    /\ UNCHANGED <<page_ranges, input_pdf, docCloses, new_doc, newDocCloses,
                   newDocPages, total_pages, parsed, parseArgs, copied,
                   output_pdf, printed>>

ValidateNonEmpty_unchecked ==
    /\ pc = "count"
    /\ total_pages' = Cardinality(DOMAIN input_pdf)
    /\ pc' = "parse"
    /\ UNCHANGED <<doc, docCloses, exitStatus, message>>
    /\ UNCHANGED <<page_ranges, input_pdf, new_doc, newDocCloses,
                   newDocPages, parsed, parseArgs, copied, output_pdf,
                   printed>>

(* lines 76-79 *)
ValidateNonEmpty ==
    /\ pc = "count"
    /\ total_pages' = Cardinality(DOMAIN input_pdf)
    /\ IF total_pages' = 0
       THEN /\ doc' = "closed" /\ docCloses' = docCloses + 1
            /\ SysExit("EmptySourceDocument")
       ELSE /\ pc' = "parse"
            /\ UNCHANGED <<doc, docCloses, exitStatus, message>>
    /\ UNCHANGED <<page_ranges, input_pdf, new_doc, newDocCloses,
                   newDocPages, parsed, parseArgs, copied, output_pdf,
                   printed>>

(* lines 81-85 *)
ResolveSelection ==
    /\ pc = "parse"
    /\ parsed' = parse_page_ranges(page_ranges, total_pages)
    /\ parseArgs' = Append(parseArgs, total_pages)
    /\ IF parsed'.err # "none"
       THEN /\ doc' = "closed" /\ docCloses' = docCloses + 1
            /\ SysExit("RangeFormatError")
       ELSE /\ pc' = "check"
            /\ UNCHANGED <<doc, docCloses, exitStatus, message>>
    /\ UNCHANGED <<page_ranges, input_pdf, new_doc, newDocCloses,
                   newDocPages, total_pages, copied, output_pdf, printed>>

ValidateSelection_leak ==
    /\ pc = "check"
    /\ IF parsed.pages = <<>>
       THEN /\ SysExit("NoPagesSelected")
            /\ UNCHANGED <<doc, docCloses>>
       ELSE /\ pc' = "newdoc"
            /\ UNCHANGED <<doc, docCloses, exitStatus, message>>
    /\ UNCHANGED <<page_ranges, input_pdf, new_doc, newDocCloses,
                   newDocPages, total_pages, parsed, parseArgs, copied,
                   output_pdf, printed>>

(* lines 87-89 *)
ValidateSelection ==
    /\ pc = "check"
    /\ IF parsed.pages = <<>>
       THEN /\ doc' = "closed" /\ docCloses' = docCloses + 1
            /\ SysExit("NoPagesSelected")
       ELSE /\ pc' = "newdoc"
            /\ UNCHANGED <<doc, docCloses, exitStatus, message>>
    /\ UNCHANGED <<page_ranges, input_pdf, new_doc, newDocCloses,
                   newDocPages, total_pages, parsed, parseArgs, copied,
                   output_pdf, printed>>

CreateOutput_touch ==
    /\ pc = "newdoc"
    /\ new_doc' = "open"
    /\ newDocPages' = <<>>
    /\ output_pdf' = [state |-> "partial", pages |-> <<>>]
    /\ pc' = "copy"
    /\ UNCHANGED <<page_ranges, input_pdf, doc, docCloses, newDocCloses,
                   total_pages, parsed, parseArgs, copied,
                   exitStatus, message, printed>>

(* line 91 *)
CreateOutput ==
    /\ pc = "newdoc"
    /\ new_doc' = "open"
    /\ newDocPages' = <<>>
    /\ pc' = "copy"
    /\ UNCHANGED <<page_ranges, input_pdf, doc, docCloses, newDocCloses,
                   total_pages, parsed, parseArgs, copied, output_pdf,
                   exitStatus, message, printed>>

(* lines 92-93: one loop iteration; an exception raised by insert_pdf is
   not caught anywhere and ends the process with a traceback *)
CopyPage ==
    /\ pc = "copy"
    /\ copied < Len(parsed.pages)
    /\ LET page_num == parsed.pages[copied + 1] IN
       \E ok \in BOOLEAN :
        IF ok THEN /\ newDocPages' = insert_pdf(newDocPages, input_pdf,
                                                page_num - 1, page_num - 1)
                   /\ copied' = copied + 1
                   /\ UNCHANGED <<pc, exitStatus, message>>
        ELSE /\ pc' = "crash"
             /\ exitStatus' = 1
             /\ message' = "UncaughtException"
             /\ UNCHANGED <<newDocPages, copied>>
    /\ UNCHANGED <<page_ranges, input_pdf, doc, docCloses, new_doc,
                   newDocCloses, total_pages, parsed, parseArgs, output_pdf,
                   printed>>

(* lines 95-100: a failed save may leave nothing or a partial file *)
Persist ==
    /\ pc = "copy"
    /\ copied = Len(parsed.pages)
    /\ \E ok \in BOOLEAN :
        IF ok THEN /\ output_pdf' = [state |-> "saved", pages |-> newDocPages]
                   /\ pc' = "cleanup"
                   /\ UNCHANGED <<doc, docCloses, new_doc, newDocCloses,
                                  exitStatus, message>>
        ELSE /\ \E st \in {output_pdf.state, "partial"} :
                    output_pdf' = [state |-> st, pages |-> <<>>]
             /\ new_doc' = "closed" /\ newDocCloses' = newDocCloses + 1
             /\ doc' = "closed" /\ docCloses' = docCloses + 1
             /\ SysExit("OutputSaveError")
    /\ UNCHANGED <<page_ranges, input_pdf, newDocPages, total_pages, parsed,
                   parseArgs, copied, printed>>

(* lines 102-104 *)
CleanupReport ==
    /\ pc = "cleanup"
    /\ new_doc' = "closed" /\ newDocCloses' = newDocCloses + 1
    /\ doc' = "closed" /\ docCloses' = docCloses + 1
    /\ printed' = TRUE
    /\ pc' = "done"
    /\ exitStatus' = 0
    /\ UNCHANGED <<page_ranges, input_pdf, newDocPages, total_pages, parsed,
                   parseArgs, copied, output_pdf, message>>

Next ==
    \/ OpenSource
    \/ ValidateNonEmpty
    \/ ResolveSelection
    \/ ValidateSelection
    \/ CreateOutput
    \/ CopyPage
    \/ Persist
    \/ CleanupReport

Spec == Init /\ [][Next]_vars

TypeOK ==
    /\ pc \in {"open", "count", "parse", "check", "newdoc", "copy",
               "cleanup", "done", "exit", "crash"}
    /\ doc \in {"none", "open", "closed"}
    /\ new_doc \in {"none", "open", "closed"}
----------------------------------------------------------------------------
(* The selection syntax, stated directly on the characters of page_ranges. *)

CommaPos == {i \in 1..Len(page_ranges) : page_ranges[i] = ","}

\* a token starts after position a: the start of the string or a comma
TokenStarts == {0} \cup CommaPos

TokenEnd(a) ==
    CHOOSE b \in CommaPos \cup {Len(page_ranges) + 1} :
        b > a /\ \A c \in CommaPos : c > a => b <= c

Trimmed(f) ==
    LET ink == {i \in 1..Len(f) : f[i] \notin Whitespace} IN
    IF ink = {} THEN <<>>
    ELSE SubSeq(f, CHOOSE i \in ink : \A j \in ink : i <= j,
                   CHOOSE i \in ink : \A j \in ink : j <= i)

Token(a) == Trimmed(SubSeq(page_ranges, a + 1, TokenEnd(a) - 1))

AllDigits(u) == u # <<>> /\ \A i \in 1..Len(u) : u[i] \in DigitChars

WellFormedInteger(f) ==
    LET t == Trimmed(f) IN
    \/ AllDigits(t)
    \/ t # <<>> /\ t[1] \in Signs /\ AllDigits(Tail(t))

HyphenPos(t) == {i \in 1..Len(t) : t[i] = "-"}

IsSingle(t) == HyphenPos(t) = {} /\ WellFormedInteger(t)

IsPair(t) ==
    /\ Cardinality(HyphenPos(t)) = 1
    /\ LET h == CHOOSE i \in HyphenPos(t) : TRUE IN
       /\ WellFormedInteger(SubSeq(t, 1, h - 1))
       /\ WellFormedInteger(SubSeq(t, h + 1, Len(t)))

PairStart(t) == int(SubSeq(t, 1, (CHOOSE i \in HyphenPos(t) : TRUE) - 1))
PairEnd(t) == int(SubSeq(t, (CHOOSE i \in HyphenPos(t) : TRUE) + 1, Len(t)))

TokenClass(t) ==
    IF t = <<>> THEN "empty"
    ELSE IF IsSingle(t) THEN "ok"
    ELSE IF IsPair(t)
         THEN IF PairStart(t) <= PairEnd(t) THEN "ok" ELSE "order"
    ELSE "format"

\* token t, well formed, lists value v
Lists(t, v) ==
    \/ IsSingle(t) /\ int(t) = v
    \/ IsPair(t) /\ PairStart(t) <= v /\ v <= PairEnd(t)

Offending == {a \in TokenStarts : TokenClass(Token(a)) \in {"format", "order"}}
FirstOffending == CHOOSE a \in Offending : \A b \in Offending : a <= b

InRange(v) == 1 <= v /\ v <= total_pages

\* the values 1..total_pages some token lists
Selectable ==
    {v \in 1..total_pages : \E a \in TokenStarts : Lists(Token(a), v)}

\* the first token that lists v
FirstToken(v) ==
    CHOOSE a \in TokenStarts :
        /\ Lists(Token(a), v)
        /\ \A b \in TokenStarts : Lists(Token(b), v) => a <= b

Returned == parsed.err = "none"
Raised == parsed.err \notin {"none", "notcalled"}
FormatErrors == {"RangoInvalido", "NumeroDePaginaInvalido"}
OrderError == "RangoInvalidoInicioMayorFin"

Str3(a, b, c) == <<a, b, c>>
Str5(a, b, c, d, e) == <<a, b, c, d, e>>

----------------------------------------------------------------------------
\* C1: whenever parse_page_ranges returns, the returned list holds no value
\* twice and every element p satisfies 1 <= p <= total_pages.
C1_NoDuplicatesInRange ==
    Returned =>
        /\ \A i \in 1..Len(parsed.pages) : InRange(parsed.pages[i])
        /\ \A i, j \in 1..Len(parsed.pages) :
               parsed.pages[i] = parsed.pages[j] => i = j

\* a value listed by two tokens was returned
C1_Witness ==
    /\ Returned
    /\ \E a, b \in TokenStarts, v \in Selectable :
           a # b /\ Lists(Token(a), v) /\ Lists(Token(b), v)
    /\ \E a \in TokenStarts, v \in {0, total_pages + 1} : Lists(Token(a), v)

\* C2: the returned list is exactly the in-range values the tokens list,
\* each once, ordered by first occurrence: by the first token listing the
\* value, and inside one range token ascending; it is never sorted.
C2_FirstOccurrenceOrder ==
    Returned =>
        /\ {parsed.pages[i] : i \in 1..Len(parsed.pages)} = Selectable
        /\ Len(parsed.pages) = Cardinality(Selectable)
        /\ \A i, j \in 1..Len(parsed.pages) :
               i < j =>
                   LET v == parsed.pages[i]
                       w == parsed.pages[j]
                   IN  \/ FirstToken(v) < FirstToken(w)
                       \/ FirstToken(v) = FirstToken(w) /\ v < w
        /\ page_ranges = Str3("3", ",", "1") /\ total_pages >= 3
               => parsed.pages = <<3, 1>>
        /\ page_ranges = Str5("1", "-", "3", ",", "2") /\ total_pages >= 3
               => parsed.pages = <<1, 2, 3>>

\* a larger page is returned before a smaller one, and a range of two or
\* more pages was expanded
C2_Witness ==
    /\ Returned
    /\ \E i, j \in 1..Len(parsed.pages) :
           i < j /\ parsed.pages[i] > parsed.pages[j]
    /\ \E a \in TokenStarts :
           /\ IsPair(Token(a))
           /\ InRange(PairStart(Token(a))) /\ InRange(PairEnd(Token(a)))
           /\ PairStart(Token(a)) < PairEnd(Token(a))

ZeroLiteral(t) == AllDigits(t) /\ \A i \in 1..Len(t) : t[i] = "0"
NegativeLiteral(t) == Len(t) >= 2 /\ t[1] = "-" /\ AllDigits(Tail(t))

\* C3 as stated: a token that is zero or a negative integer never raises a
\* format error and is filtered out of the result.
C3_ZeroNegativeValid ==
    parsed.err # "notcalled" =>
        /\ \A a \in TokenStarts :
               ZeroLiteral(Token(a)) \/ NegativeLiteral(Token(a))
                   => ~(Raised /\ parsed.part = Token(a))
        /\ \A i \in 1..Len(parsed.pages) : parsed.pages[i] >= 1

\* C3 amended: a token that is zero never raises and 0 is never returned; a
\* token written as a negative integer contains a hyphen, so the parse
\* raises, with the range-format error when it is the first offending token.
C3_ZeroValidNegativeRaises ==
    parsed.err # "notcalled" =>
        /\ \A a \in TokenStarts :
               ZeroLiteral(Token(a)) => ~(Raised /\ parsed.part = Token(a))
        /\ \A i \in 1..Len(parsed.pages) : parsed.pages[i] >= 1
        /\ \A a \in TokenStarts :
               NegativeLiteral(Token(a)) =>
                   /\ Raised
                   /\ a = FirstOffending =>
                          /\ parsed.err = "RangoInvalido"
                          /\ parsed.part = Token(a)

\* a zero token was accepted and a later negative token raised
C3_Witness ==
    /\ Raised
    /\ \E a, b \in TokenStarts :
           /\ a < b /\ ZeroLiteral(Token(a))
           /\ NegativeLiteral(Token(b)) /\ b = FirstOffending
           /\ parsed.part = Token(b)

\* C4: well-formed tokens whose values lie outside 1..total_pages are
\* omitted without an error, while one malformed token anywhere makes the
\* whole parse fail, whatever the other tokens are.
C4_OutOfRangeSilentMalformedFatal ==
    parsed.err # "notcalled" =>
        /\ Raised <=> Offending # {}
        /\ Returned =>
               {parsed.pages[i] : i \in 1..Len(parsed.pages)} = Selectable
        /\ Raised => parsed.pages = <<>>

\* an out-of-range token was omitted next to a token that produced a page
C4_Witness ==
    /\ Returned /\ parsed.pages # <<>>
    /\ \E a \in TokenStarts :
           /\ IsSingle(Token(a)) /\ int(Token(a)) > total_pages
    /\ \E a \in TokenStarts :
           /\ IsPair(Token(a)) /\ PairStart(Token(a)) <= PairEnd(Token(a))
           /\ PairEnd(Token(a)) > total_pages

\* C5: the parse raises a format error exactly when the first offending
\* token is not an integer or not a pair of two integer fields, raises the
\* distinct order error exactly when it is a pair with start > end, and
\* accepts a pair with start = end, which yields that one page.
C5_ErrorKinds ==
    parsed.err # "notcalled" =>
        /\ parsed.err \in FormatErrors <=>
               Offending # {} /\ TokenClass(Token(FirstOffending)) = "format"
        /\ parsed.err = OrderError <=>
               Offending # {} /\ TokenClass(Token(FirstOffending)) = "order"
        /\ Raised => parsed.part = Token(FirstOffending)
        /\ \A a \in TokenStarts :
               LET t == Token(a) IN
               IsPair(t) /\ PairStart(t) = PairEnd(t) =>
                   /\ ~(Raised /\ parsed.part = t)
                   /\ Returned /\ InRange(PairStart(t)) =>
                          \E i \in 1..Len(parsed.pages) :
                              parsed.pages[i] = PairStart(t)
        /\ page_ranges = Str3("2", "-", "2") /\ total_pages >= 2
               => Returned /\ parsed.pages = <<2>>

\* an order error was raised by a pair that follows an accepted token
C5_Witness ==
    /\ parsed.err = OrderError
    /\ IsPair(parsed.part) /\ PairStart(parsed.part) > PairEnd(parsed.part)
    /\ \E a \in TokenStarts :
           a < FirstOffending /\ TokenClass(Token(a)) = "ok"

----------------------------------------------------------------------------
Terminated == pc \in {"done", "exit", "crash"}
NumPages == Cardinality(DOMAIN input_pdf)

\* C6: every handle that was opened is released exactly once on every exit
\* path, whichever step fails.
C6_HandlesReleasedOnce ==
    /\ docCloses <= 1 /\ newDocCloses <= 1
    /\ Terminated =>
           /\ doc # "none" => doc = "closed" /\ docCloses = 1
           /\ new_doc # "none" => new_doc = "closed" /\ newDocCloses = 1

\* C7: the output file is written only after every earlier step succeeded
\* and all selected pages were copied; a fatal failure before the save step
\* leaves the output path untouched; the success message follows a
\* successful save.
C7_SaveLast ==
    /\ output_pdf.state # "untouched" =>
           /\ doc # "none" /\ total_pages >= 1
           /\ Returned /\ parsed.pages # <<>>
           /\ new_doc # "none"
           /\ copied = Len(parsed.pages)
           /\ Len(newDocPages) = Len(parsed.pages)
           /\ pc \in {"cleanup", "done", "exit"}
           /\ pc = "exit" => message = "OutputSaveError"
    /\ message \in {"SourceOpenError", "EmptySourceDocument",
                    "RangeFormatError", "NoPagesSelected",
                    "UncaughtException"}
           => output_pdf.state = "untouched"
    /\ printed => output_pdf.state = "saved" /\ pc = "done"
    /\ pc = "done" => printed

\* the copy of a later page failed after an earlier page was copied
C7_Witness ==
    /\ pc = "crash" /\ copied >= 1
    /\ output_pdf.state = "untouched"

PageLiteral(n) == Digits[n + 1]

SavedPagesAreResolved ==
    pc = "done" =>
        /\ output_pdf.state = "saved"
        /\ Len(output_pdf.pages) = Len(parsed.pages)
        /\ \A i \in 1..Len(parsed.pages) :
               output_pdf.pages[i] = input_pdf[parsed.pages[i] - 1]

FullCopy ==
    pc = "done"
    /\ page_ranges = Str3("1", "-", PageLiteral(NumPages))
        => output_pdf.pages = [i \in 1..NumPages |-> input_pdf[i - 1]]

LastThenFirst ==
    pc = "done"
    /\ page_ranges = Str3(PageLiteral(NumPages), ",", "1")
        => output_pdf.pages = <<input_pdf[NumPages - 1], input_pdf[0]>>

\* C8 as stated: after a successful run over N >= 1 pages the saved document
\* is the resolved pages in resolved order; "1-N" gives a page-for-page
\* copy and "N,1" gives exactly two pages, page N then page 1.
C8_OutputIsResolved ==
    /\ SavedPagesAreResolved
    /\ FullCopy
    /\ LastThenFirst

\* C8 amended: the same, with "N,1" giving two pages only when N >= 2.
C8_OutputIsResolvedTwoPages ==
    /\ SavedPagesAreResolved
    /\ FullCopy
    /\ NumPages >= 2 => LastThenFirst

\* a run that saved the last page before the first one
C8_Witness ==
    /\ pc = "done" /\ NumPages >= 2
    /\ page_ranges = Str3(PageLiteral(NumPages), ",", "1")
    /\ Len(output_pdf.pages) = 2

\* no token is malformed and no token lists a page of the document
NothingSelectable ==
    /\ \A a \in TokenStarts : TokenClass(Token(a)) \in {"empty", "ok"}
    /\ \A a \in TokenStarts, v \in 1..NumPages : ~Lists(Token(a), v)

\* C9: an empty, blank or commas-only string, and a string whose tokens are
\* all well formed and out of range, make the parser return the empty list
\* without raising; extract_pages then fails with NoPagesSelected and a
\* non-zero status, the source released, no output document or file.
C9_EmptySelection ==
    NothingSelectable /\ parsed.err # "notcalled" =>
        /\ Returned /\ parsed.pages = <<>>
        /\ pc \in {"check", "exit"}
        /\ new_doc = "none" /\ newDocCloses = 0
        /\ output_pdf.state = "untouched"
        /\ pc = "exit" =>
               /\ message = "NoPagesSelected"
               /\ exitStatus = 1
               /\ doc = "closed" /\ docCloses = 1

\* the run ended on a selection of out-of-range pages
C9_Witness ==
    /\ pc = "exit" /\ message = "NoPagesSelected"
    /\ \E a \in TokenStarts : IsSingle(Token(a))

\* C10: the parser is never called with total_pages = 0: on a source of
\* zero pages extract_pages releases the source and fails with
\* EmptySourceDocument before the selection is parsed, malformed or not.
C10_ParserNeverSeesZero ==
    /\ \A i \in 1..Len(parseArgs) : parseArgs[i] >= 1
    /\ NumPages = 0 =>
           /\ parsed.err = "notcalled"
           /\ pc \in {"open", "count", "exit"}
           /\ pc = "exit" /\ doc # "none" =>
                  /\ message = "EmptySourceDocument"
                  /\ exitStatus = 1
                  /\ doc = "closed" /\ docCloses = 1

\* an empty document with a malformed selection ended the run
C10_Witness ==
    /\ pc = "exit" /\ message = "EmptySourceDocument"
    /\ Offending # {}
====
